---- MODULE Spec2Model ----
(***************************************************************************)
(* Model of src/bot.py: a Telegram bot that receives updates on a Flask    *)
(* webhook, extracts a Terabox share link from the message text, asks      *)
(* three resolver APIs in a fixed order for a direct video URL and relays  *)
(* the first usable one to the chat.                                       *)
(*                                                                         *)
(* Python strings are sequences of one-character strings.  Python values   *)
(* that the code probes (JSON fields) are tagged records, see Str/Num/None.*)
(***************************************************************************)
EXTENDS Integers, Sequences, FiniteSets, TLC

\* ------------------------------------------------------------------------
\* Bounds of the model
\* ------------------------------------------------------------------------

\* longest input string to escape_markdown_v2 that is enumerated exhaustively
MaxLen == 2

\* most list entries a resolver response carries in front of its last entry
MaxSkip == 1

\* ------------------------------------------------------------------------
\* Python values
\* ------------------------------------------------------------------------

None == [t |-> "none", s |-> <<>>, n |-> 0]

Str(chars) == [t |-> "str", s |-> chars, n |-> 0]

Num(k) == [t |-> "int", s |-> <<>>, n |-> k]

\* bool(v) of a str, an int or None
Truthy(v) == \/ v.t = "str" /\ v.s # <<>>
             \/ v.t = "int" /\ v.n # 0

\* ------------------------------------------------------------------------
\* String helpers (str.lower, str.startswith, `in`, str.replace)
\* ------------------------------------------------------------------------

UPPER == <<"A","B","C","D","E","F","G","H","I","J","K","L","M","N","O","P","Q","R","S","T","U","V","W","X","Y","Z">>

LOWERC == <<"a","b","c","d","e","f","g","h","i","j","k","l","m","n","o","p","q","r","s","t","u","v","w","x","y","z">>

DIGITS == <<"0","1","2","3","4","5","6","7","8","9">>

Range(f) == {f[i] : i \in DOMAIN f}

LowerChar(c) == IF \E i \in DOMAIN UPPER : UPPER[i] = c THEN LOWERC[CHOOSE i \in DOMAIN UPPER : UPPER[i] = c] ELSE c

Lower(text) == [i \in 1..Len(text) |-> LowerChar(text[i])]

HasAt(text, p, lit) == /\ p >= 1
                       /\ p + Len(lit) - 1 <= Len(text)
                       /\ SubSeq(text, p, p + Len(lit) - 1) = lit

StartsWith(text, prefix) == HasAt(text, 1, prefix)

Contains(text, needle) == \E p \in 1..(Len(text) + 1) : HasAt(text, p, needle)

RECURSIVE Replace(_, _, _)
Replace(text, char, rep) == IF text = <<>> THEN <<>> ELSE (IF Head(text) = char THEN rep ELSE <<Head(text)>>) \o Replace(Tail(text), char, rep)

\* ------------------------------------------------------------------------
\* escape_markdown_v2
\* ------------------------------------------------------------------------

\* the backtick character, which a TLA+ string literal cannot hold
BACKTICK == "BACKTICK"

\* special_chars with the backslash replaced last instead of first
special_chars_backslash_last == <<"_","*","[","]","(",")","~",BACKTICK,">","#","+","-","=","|","{","}",".","!","\\">>

special_chars == <<"\\","_","*","[","]","(",")","~",BACKTICK,">","#","+","-","=","|","{","}",".","!">>

\* the loop `for char in special_chars: text = text.replace(char, '\\' + char)`,
\* entered at index i
RECURSIVE EscapeLoop(_, _)
EscapeLoop(text, i) == IF i > Len(special_chars) THEN text ELSE EscapeLoop(Replace(text, special_chars[i], <<"\\", special_chars[i]>>), i + 1)

\* escape_markdown_v2 on a str
EscapeStr(text) == EscapeLoop(text, 1)

\* escape_markdown_v2 on any value: text.replace exists on str only
escape_markdown_v2(v) == IF v.t = "str" THEN [exc |-> "none", s |-> EscapeStr(v.s)] ELSE [exc |-> "AttributeError", s |-> <<>>]

\* ------------------------------------------------------------------------
\* extract_terabox_link
\* ------------------------------------------------------------------------

HTTP == <<"h","t","t","p">>

SCHEME_SEP == <<":","/","/">>

WWW == <<"w","w","w",".">>

DOM_TERABOX == <<"t","e","r","a","b","o","x">>

APP == <<"a","p","p">>

DOT_COM_S == <<".","c","o","m","/","s","/">>

DOM_1024 == <<"1","0","2","4","t","e","r","a","b","o","x">>

\* [a-zA-Z0-9_-]
TokenChars == Range(UPPER) \cup Range(LOWERC) \cup Range(DIGITS) \cup {"_", "-"}

Opt(use, lit) == IF use THEN lit ELSE <<>>

\* the literal part of the first alternative for one choice of its optional
\* groups: https?://(?:www\.)?terabox(?:app)?\.com/s/
Alt1(useS, useWww, useApp) == HTTP \o Opt(useS, <<"s">>) \o SCHEME_SEP \o Opt(useWww, WWW) \o DOM_TERABOX \o Opt(useApp, APP) \o DOT_COM_S

\* the literal part of the second alternative: https?://(?:www\.)?1024terabox\.com/s/
Alt2(useS, useWww) == HTTP \o Opt(useS, <<"s">>) \o SCHEME_SEP \o Opt(useWww, WWW) \o DOM_1024 \o DOT_COM_S

\* the literal parts in the order the regex engine tries them: first
\* alternative before the second, each optional group taken before skipped
Literals == << Alt1(TRUE, TRUE, TRUE), Alt1(TRUE, TRUE, FALSE), Alt1(TRUE, FALSE, TRUE), Alt1(TRUE, FALSE, FALSE),
               Alt1(FALSE, TRUE, TRUE), Alt1(FALSE, TRUE, FALSE), Alt1(FALSE, FALSE, TRUE), Alt1(FALSE, FALSE, FALSE),
               Alt2(TRUE, TRUE), Alt2(TRUE, FALSE), Alt2(FALSE, TRUE), Alt2(FALSE, FALSE) >>

\* length of the longest run of token characters starting at p (greedy +)
RECURSIVE TokenRun(_, _)
TokenRun(text, p) == IF p <= Len(text) /\ text[p] \in TokenChars THEN 1 + TokenRun(text, p + 1) ELSE 0

LitMatches(text, p, k) == HasAt(text, p, Literals[k]) /\ TokenRun(text, p + Len(Literals[k])) >= 1

MatchesAt(text, p) == \E k \in DOMAIN Literals : LitMatches(text, p, k)

\* match.group(0) for a match starting at p
MatchAt(text, p) == LET k == CHOOSE j \in DOMAIN Literals : LitMatches(text, p, j) /\ \A h \in 1..(j - 1) : ~LitMatches(text, p, h)
                    IN SubSeq(text, p, p + Len(Literals[k]) + TokenRun(text, p + Len(Literals[k])) - 1)

\* re.search(...): the leftmost match, or None
extract_terabox_link(text) == IF \E p \in 1..Len(text) : MatchesAt(text, p)
                              THEN Str(MatchAt(text, CHOOSE p \in 1..Len(text) : MatchesAt(text, p) /\ \A q \in 1..(p - 1) : ~MatchesAt(text, q)))
                              ELSE None

\* ------------------------------------------------------------------------
\* Values the resolver APIs can answer with
\* ------------------------------------------------------------------------

\* a key that the JSON object does not have
Absent == [t |-> "absent", s |-> <<>>, n |-> 0]

\* dict.get(key)
Get(v) == IF v.t = "absent" THEN None ELSE v

\* dict.get(key, default)
GetDefault(v, default) == IF v.t = "absent" THEN default ELSE v

\* a or b
Or(a, b) == IF Truthy(a) THEN a ELSE b

UrlHttps == <<"h","t","t","p","s",":","/","/","d",".","c","o","/","v",".","m","p","4">>

UrlHttp == <<"h","t","t","p",":","/","/","d",".","c","o","/","v","_","1">>

UrlFtp == <<"f","t","p",":","/","/","d",".","c","o","/","v">>

UrlDownBare == <<"D","o","w","n","l","o","a","d"," ","f","e","a","t","u","r","e"," ","i","s"," ","c","u","r","r","e","n","t","l","y"," ","d","o","w","n">>

UrlDownHttp == <<"h","t","t","p","s",":","/","/","x","/","D","o","w","n","l","o","a","d"," ","F","e","a","t","u","r","e"," ","I","s"," ","C","u","r","r","e","n","t","l","y"," ","D","O","W","N">>

TitleDots == <<"A",".","B","(","C",")">>

TitleVideo == <<"V","i","d","e","o">>

SizeText == <<"1",".","5"," ","M","B">>

Thumb850 == <<"h","t","t","p",":","/","/","t","/","8","5","0">>

Thumb360 == <<"h","t","t","p",":","/","/","t","/","3","6","0">>

Thumb60 == <<"h","t","t","p",":","/","/","t","/","6","0">>

StatusSuccess == <<"s","u","c","c","e","s","s">>

StatusSuccess3 == <<"CHECKMARK"," ","S","u","c","c","e","s","s">>

StatusError == <<"e","r","r","o","r">>

KindVideo == <<"v","i","d","e","o">>

KindFile == <<"f","i","l","e">>

\* what a resolver may put in its URL field: URLs of videos ...
VideoUrls == {Str(UrlHttps), Str(UrlHttp)}

\* ... and everything else
OtherUrls == {Str(UrlFtp), Str(UrlDownBare), Str(UrlDownHttp), Str(<<>>), Num(12345), Absent}

\* what a resolver may put in its name field
TitleVals == {Str(TitleDots), Num(7), Absent}

\* what a resolver may put in its size field: text, a number of bytes, nothing
SizeVals == {Str(SizeText), Num(1024), Absent}

\* what a resolver may put in a thumbnail field
ThumbVals == {Str(Thumb850), Absent}

\* URL, name and size of one answer: a video URL comes with every name and
\* size, any other URL with one
Fields == {<<u, nm, sz>> : u \in VideoUrls, nm \in TitleVals, sz \in SizeVals} \cup {<<u, Str(TitleDots), Str(SizeText)>> : u \in OtherUrls}

\* sequences over S of length 0..n
RECURSIVE SeqsUpTo(_, _)
SeqsUpTo(S, n) == IF n = 0 THEN {<<>>} ELSE LET shorter == SeqsUpTo(S, n - 1) IN shorter \cup {Append(q, x) : q \in shorter, x \in S}

\* outcome of the transport: requests.get and raise_for_status
NetVals == {"ok", "ConnectionError", "Timeout"}

HttpStatusVals == {200, 404, 500}

\* ------------------------------------------------------------------------
\* The video_info record the fetchers return
\* ------------------------------------------------------------------------

NoneInfo == [isNone |-> TRUE, title |-> None, url |-> None, size |-> None, thumbnail |-> None]

Info(title, url, size, thumbnail) == [isNone |-> FALSE, title |-> title, url |-> url, size |-> size, thumbnail |-> thumbnail]

\* result of evaluating a block of code: the exception it raised or its value
Raise(exc) == [exc |-> exc, value |-> NoneInfo]

Return(value) == [exc |-> "none", value |-> value]

\* requests.exceptions.RequestException and its subclasses
RequestExceptions == {"ConnectionError", "Timeout", "HTTPError"}

\* ValueError and its subclasses
ValueErrors == {"ValueError", "JSONDecodeError"}

\* Exception and its subclasses
Exceptions == RequestExceptions \cup ValueErrors \cup {"AttributeError", "TypeError", "KeyError", "BadRequest", "NetworkError"}

\* the three except clauses every fetcher ends with: each logs and returns None
ExceptClauses(outcome) == IF outcome.exc = "none" THEN [raised |-> "none", value |-> outcome.value]
                          ELSE IF outcome.exc \in RequestExceptions THEN [raised |-> "none", value |-> NoneInfo]
                          ELSE IF outcome.exc \in ValueErrors THEN [raised |-> "none", value |-> NoneInfo]
                          ELSE IF outcome.exc \in Exceptions THEN [raised |-> "none", value |-> NoneInfo]
                          ELSE [raised |-> outcome.exc, value |-> NoneInfo]

\* requests.get(api_url, timeout=15); response.raise_for_status(); response.json()
\* and the first data.get(...): the exception they raise, or "none"
Transport(resp) == IF resp.net # "ok" THEN resp.net
                   ELSE IF resp.status >= 400 THEN "HTTPError"
                   ELSE IF ~resp.decodable THEN "JSONDecodeError"
                   ELSE IF ~resp.isdict THEN "AttributeError"
                   ELSE "none"

\* ------------------------------------------------------------------------
\* fetch_from_api1
\* ------------------------------------------------------------------------

Item1(isdict, type, playUrl, name, size, image) == [isdict |-> isdict, type |-> type, playUrl |-> playUrl, name |-> name, size |-> size, image |-> image]

NonDictItem1 == Item1(FALSE, Absent, Absent, Absent, Absent, Absent)

\* entries of data['list']
Items1 == {NonDictItem1} \cup {Item1(TRUE, ty, f[1], f[2], f[3], im) : ty \in {Str(KindVideo), Str(KindFile)}, f \in Fields, im \in ThumbVals}

\* entries that come in front of the last one
LeadItems1 == {NonDictItem1, Item1(TRUE, Str(KindFile), Str(UrlHttp), Absent, Absent, Absent), Item1(TRUE, Str(KindVideo), Str(UrlHttp), Str(TitleVideo), Absent, Absent)}

Lists1 == SeqsUpTo(LeadItems1, MaxSkip) \cup {Append(q, x) : q \in SeqsUpTo(LeadItems1, MaxSkip), x \in Items1}

Resp1(net, status, decodable, isdict, st, lt, items) == [net |-> net, status |-> status, decodable |-> decodable, isdict |-> isdict, st |-> st, lt |-> lt, items |-> items]

\* answers of API 1: lt says whether data['list'] is missing, a list or a number
Responses1 == {Resp1(net, 200, TRUE, TRUE, Absent, "absent", <<>>) : net \in NetVals \ {"ok"}}
              \cup {Resp1("ok", status, TRUE, TRUE, Absent, "absent", <<>>) : status \in HttpStatusVals \ {200}}
              \cup {Resp1("ok", 200, decodable, isdict, Absent, "absent", <<>>) : decodable, isdict \in BOOLEAN}
              \cup {Resp1("ok", 200, TRUE, TRUE, st, lt, <<>>) : st \in {Absent, Str(StatusError), Str(StatusSuccess)}, lt \in {"absent", "int", "list"}}
              \cup {Resp1("ok", 200, TRUE, TRUE, Str(StatusSuccess), "list", items) : items \in Lists1}

\* bool(data.get('list'))
ListTruthy(lt, items) == lt = "int" \/ (lt = "list" /\ items # <<>>)

\* the loop `for item in data['list']`, entered at index i
RECURSIVE ScanItems1(_, _)
ScanItems1(items, i) == IF i > Len(items) THEN Return(NoneInfo)
                        ELSE IF ~items[i].isdict THEN Raise("AttributeError")
                        ELSE IF Get(items[i].type) = Str(KindVideo) /\ Truthy(Get(items[i].playUrl))
                             THEN Return(Info(GetDefault(items[i].name, Str(TitleVideo)), items[i].playUrl, Get(items[i].size), Get(items[i].image)))
                             ELSE ScanItems1(items, i + 1)

\* the try block of fetch_from_api1
Api1Try(resp) == IF Transport(resp) # "none" THEN Raise(Transport(resp))
                 ELSE IF ~(Get(resp.st) = Str(StatusSuccess) /\ ListTruthy(resp.lt, resp.items)) THEN Return(NoneInfo)
                 ELSE IF resp.lt = "int" THEN Raise("TypeError")
                 ELSE ScanItems1(resp.items, 1)

fetch_from_api1(resp) == ExceptClauses(Api1Try(resp))

\* ------------------------------------------------------------------------
\* fetch_from_api2
\* ------------------------------------------------------------------------

Resp2(net, status, decodable, isdict, st, download_link, file_name, file_size, thumbnail) == [net |-> net, status |-> status, decodable |-> decodable, isdict |-> isdict, st |-> st, download_link |-> download_link, file_name |-> file_name, file_size |-> file_size, thumbnail |-> thumbnail]

Responses2 == {Resp2(net, 200, TRUE, TRUE, Absent, Absent, Absent, Absent, Absent) : net \in NetVals \ {"ok"}}
              \cup {Resp2("ok", status, TRUE, TRUE, Absent, Absent, Absent, Absent, Absent) : status \in HttpStatusVals \ {200}}
              \cup {Resp2("ok", 200, decodable, isdict, Absent, Absent, Absent, Absent, Absent) : decodable, isdict \in BOOLEAN}
              \cup {Resp2("ok", 200, TRUE, TRUE, st, Str(UrlHttps), Absent, Absent, Absent) : st \in {Absent, Str(StatusError)}}
              \cup {Resp2("ok", 200, TRUE, TRUE, Str(StatusSuccess), f[1], f[2], f[3], th) : f \in Fields, th \in ThumbVals}

\* the try block of fetch_from_api2
Api2Try(resp) == IF Transport(resp) # "none" THEN Raise(Transport(resp))
                 ELSE IF Get(resp.st) = Str(StatusSuccess) /\ Truthy(Get(resp.download_link))
                      THEN Return(Info(GetDefault(resp.file_name, Str(TitleVideo)), resp.download_link, Get(resp.file_size), Get(resp.thumbnail)))
                      ELSE Return(NoneInfo)

fetch_from_api2(resp) == ExceptClauses(Api2Try(resp))

\* ------------------------------------------------------------------------
\* fetch_from_api3
\* ------------------------------------------------------------------------

\* extracted_info['Thumbnails']: tt says whether it is missing, a dict or a list
Thumbs3(tt, k850, k360, k140, k60) == [tt |-> tt, k850 |-> k850, k360 |-> k360, k140 |-> k140, k60 |-> k60]

ThumbsVals3 == {Thumbs3("absent", Absent, Absent, Absent, Absent), Thumbs3("list", Absent, Absent, Absent, Absent), Thumbs3("dict", Absent, Absent, Absent, Absent),
                Thumbs3("dict", Str(Thumb850), Absent, Absent, Str(Thumb60)), Thumbs3("dict", Absent, Str(Thumb360), Absent, Str(Thumb60)), Thumbs3("dict", Str(<<>>), Absent, Absent, Str(Thumb60))}

Item3(isdict, link, title, size, thumbs) == [isdict |-> isdict, link |-> link, title |-> title, size |-> size, thumbs |-> thumbs]

NonDictItem3 == Item3(FALSE, Absent, Absent, Absent, Thumbs3("absent", Absent, Absent, Absent, Absent))

\* entries of data['Extracted Info']
Items3 == {NonDictItem3} \cup {Item3(TRUE, f[1], f[2], f[3], th) : f \in Fields, th \in ThumbsVals3}

\* entries behind the first one
TrailItems3 == {NonDictItem3, Item3(TRUE, Str(UrlHttp), Str(TitleVideo), Absent, Thumbs3("absent", Absent, Absent, Absent, Absent))}

Lists3 == {<<>>} \cup {<<x>> \o q : x \in Items3, q \in SeqsUpTo(TrailItems3, MaxSkip)}

Resp3(net, status, decodable, isdict, st, lt, items) == [net |-> net, status |-> status, decodable |-> decodable, isdict |-> isdict, st |-> st, lt |-> lt, items |-> items]

Responses3 == {Resp3(net, 200, TRUE, TRUE, Absent, "absent", <<>>) : net \in NetVals \ {"ok"}}
              \cup {Resp3("ok", status, TRUE, TRUE, Absent, "absent", <<>>) : status \in HttpStatusVals \ {200}}
              \cup {Resp3("ok", 200, decodable, isdict, Absent, "absent", <<>>) : decodable, isdict \in BOOLEAN}
              \cup {Resp3("ok", 200, TRUE, TRUE, st, lt, <<>>) : st \in {Absent, Str(StatusSuccess), Str(StatusSuccess3)}, lt \in {"absent", "int", "list"}}
              \cup {Resp3("ok", 200, TRUE, TRUE, Str(StatusSuccess3), "list", items) : items \in Lists3}

\* bool(thumbnails)
ThumbsTruthy(th) == th.tt = "list" \/ (th.tt = "dict" /\ \E v \in {th.k850, th.k360, th.k140, th.k60} : v.t # "absent")

\* thumbnails.get("850x580") or thumbnails.get("360x270") or thumbnails.get("140x90") or thumbnails.get("60x60")
PickThumbnail(th) == Or(Get(th.k850), Or(Get(th.k360), Or(Get(th.k140), Get(th.k60))))

\* the body of `if data.get('status') == ... and len(data['Extracted Info']) > 0:`
Api3First(extracted_info) == IF ~extracted_info.isdict THEN Raise("AttributeError")
                             ELSE IF ~Truthy(Get(extracted_info.link)) THEN Return(NoneInfo)
                             ELSE IF ~ThumbsTruthy(extracted_info.thumbs) THEN Return(Info(GetDefault(extracted_info.title, Str(TitleVideo)), extracted_info.link, Get(extracted_info.size), None))
                             ELSE IF extracted_info.thumbs.tt # "dict" THEN Raise("AttributeError")
                             ELSE Return(Info(GetDefault(extracted_info.title, Str(TitleVideo)), extracted_info.link, Get(extracted_info.size), PickThumbnail(extracted_info.thumbs)))

\* the try block of fetch_from_api3
Api3Try(resp) == IF Transport(resp) # "none" THEN Raise(Transport(resp))
                 ELSE IF ~(Get(resp.st) = Str(StatusSuccess3) /\ ListTruthy(resp.lt, resp.items)) THEN Return(NoneInfo)
                 ELSE IF resp.lt = "int" THEN Raise("TypeError")
                 ELSE Api3First(resp.items[1])

fetch_from_api3(resp) == ExceptClauses(Api3Try(resp))

\* ------------------------------------------------------------------------
\* Inputs: incoming webhook requests and Telegram's answers
\* ------------------------------------------------------------------------

TextNoLink == <<"h","e","l","l","o"," ","t","h","e","r","e">>

TextApp == <<"s","e","e"," ","h","t","t","p","s",":","/","/","t","e","r","a","b","o","x","a","p","p",".","c","o","m","/","s","/","1","h","9","_","x"," ","n","o","w">>

Text1024 == <<"h","t","t","p","s",":","/","/","1","0","2","4","t","e","r","a","b","o","x",".","c","o","m","/","s","/","a","b","-","c">>

TextWww == <<"h","t","t","p",":","/","/","w","w","w",".","t","e","r","a","b","o","x",".","c","o","m","/","s","/","Q","!">>

TextOtherHost == <<"h","t","t","p","s",":","/","/","t","e","r","a","b","o","x",".","o","r","g","/","s","/","x">>

TextNoToken == <<"h","t","t","p","s",":","/","/","t","e","r","a","b","o","x","a","p","p",".","c","o","m","/","s","/">>

TextUpperHost == <<"h","t","t","p","s",":","/","/","T","E","R","A","B","O","X",".","c","o","m","/","s","/","x">>

\* message texts a user may send
Texts == {TextNoLink, TextApp, Text1024, TextWww, TextOtherHost, TextNoToken, TextUpperHost}

\* a POST to /webhook: is_json is the Content-Type test; body says what the
\* payload is: not parsable as JSON, a falsy JSON value such as {}, JSON that
\* Update.de_json rejects, or an update; kind says which handler the update
\* matches (other: none of the three registered handlers)
Req(is_json, body, kind, text) == [is_json |-> is_json, body |-> body, kind |-> kind, text |-> text]

NoReq == Req(FALSE, "none", "none", <<>>)

Requests == {Req(j, b, "none", <<>>) : j \in BOOLEAN, b \in {"unparsable", "falsy", "badupdate"}}
            \cup {Req(j, "update", k, <<>>) : j \in BOOLEAN, k \in {"start", "help", "other"}}
            \cup {Req(j, "update", "text", txt) : j \in BOOLEAN, txt \in Texts}

\* an exception with the text str(e) gives
Exc(type, msg) == [type |-> type, msg |-> msg]

NoExc == Exc("none", "")

\* what `await update.message.reply_video(...)` may do: succeed or raise
ReplyVideoOutcomes == {NoExc, Exc("BadRequest", "Failed to get http url content"), Exc("BadRequest", "Can't parse entities"), Exc("NetworkError", "Timed out")}

\* what `await update.message.reply_text(...)` may do: succeed or raise
ReplyTextOutcomes == {NoExc, Exc("NetworkError", "Timed out")}

\* a message handed to reply_text or reply_video: ok says whether the call
\* returned, cls is the reason an apology names, body the link or URL the
\* text carries, caption the escaped title and size of a video
Msg(kind, ok, cls, body, caption) == [kind |-> kind, ok |-> ok, cls |-> cls, body |-> body, caption |-> caption]

\* ------------------------------------------------------------------------
\* telegram_webhook
\* ------------------------------------------------------------------------

\* telegram_webhook without its `if not update_data` test
WebhookStatus_no_empty_check(req) == IF ~req.is_json THEN 400
                                     ELSE IF req.body = "unparsable" THEN 400
                                     ELSE IF req.body = "badupdate" THEN 500
                                     ELSE 0

\* the status telegram_webhook answers with before it dispatches, 0 if it
\* goes on to process_update
WebhookStatus(req) == IF ~req.is_json THEN 400
                      ELSE IF req.body = "unparsable" THEN 400
                      ELSE IF req.body = "falsy" THEN 400
                      ELSE IF req.body = "badupdate" THEN 500
                      ELSE 0

\* ------------------------------------------------------------------------
\* handle_terabox_link: its tests and pure parts
\* ------------------------------------------------------------------------

OUTAGE_MARKER == <<"d","o","w","n","l","o","a","d"," ","f","e","a","t","u","r","e"," ","i","s"," ","c","u","r","r","e","n","t","l","y"," ","d","o","w","n">>

HTTP_PREFIX == <<"h","t","t","p",":","/","/">>

HTTPS_PREFIX == <<"h","t","t","p","s",":","/","/">>

api_fetchers == <<"API 3", "API 1", "API 2">>

ResponsesOf(api) == CASE api = "API 1" -> Responses1 [] api = "API 2" -> Responses2 [] OTHER -> Responses3

Fetch(api, resp) == CASE api = "API 1" -> fetch_from_api1(resp) [] api = "API 2" -> fetch_from_api2(resp) [] OTHER -> fetch_from_api3(resp)

\* handle_terabox_link without its `if not terabox_link` test
LinkMissing_never(terabox_link) == FALSE

\* `if not terabox_link`
LinkMissing(terabox_link) == ~Truthy(terabox_link)

\* `video_info and video_info.get('url') and "download feature is currently
\* down" not in video_info['url'].lower()`: accept, reject, or the exception
AcceptCheck(info) == IF info.isNone THEN "reject"
                     ELSE IF ~Truthy(info.url) THEN "reject"
                     ELSE IF info.url.t # "str" THEN "AttributeError"
                     ELSE IF Contains(Lower(info.url.s), OUTAGE_MARKER) THEN "reject"
                     ELSE "accept"

\* the loop without its break
LoopEnds_no_break(check, i) == i = Len(api_fetchers)

\* whether the loop over api_fetchers ends after the i-th result
LoopEnds(check, i) == check = "accept" \/ i = Len(api_fetchers)

\* handle_terabox_link taking the try block whatever the loop left
HasUrl_always(info) == TRUE

\* `if video_info and video_info.get('url')`
HasUrl(info) == ~info.isNone /\ Truthy(info.url)

\* handle_terabox_link without its scheme test
ValidScheme_any(video_url) == TRUE

\* video_url.startswith(('http://', 'https://'))
ValidScheme(video_url) == StartsWith(video_url, HTTP_PREFIX) \/ StartsWith(video_url, HTTPS_PREFIX)

\* the try block up to the reply_video call: the exception it raises, or the
\* caption.  video_info always has the keys title and size (the fetchers set
\* them, to None when the API gave none), so .get's default is never taken.
BuildVideo(info) == IF info.isNone THEN [exc |-> Exc("TypeError", "not subscriptable"), caption |-> <<>>]
                    ELSE IF escape_markdown_v2(info.title).exc # "none" THEN [exc |-> Exc("AttributeError", "no attribute replace"), caption |-> <<>>]
                    ELSE IF escape_markdown_v2(info.size).exc # "none" THEN [exc |-> Exc("AttributeError", "no attribute replace"), caption |-> <<>>]
                    ELSE IF info.url.t # "str" THEN [exc |-> Exc("AttributeError", "no attribute startswith"), caption |-> <<>>]
                    ELSE IF ~ValidScheme(info.url.s) THEN [exc |-> Exc("ValueError", "Invalid video URL received"), caption |-> <<>>]
                    ELSE [exc |-> NoExc, caption |-> <<escape_markdown_v2(info.title).s, escape_markdown_v2(info.size).s>>]

\* error_message_for_user, by the phrases looked for in str(e)
Classify(e) == IF e.msg = "Failed to get http url content" THEN "content unreachable"
               ELSE IF e.msg = "Can't parse entities" THEN "formatting error"
               ELSE "unknown error"

\* the fallback message with the URL as it is
FallbackBody_raw(url) == [exc |-> "none", s |-> url.s]

\* the link inside the fallback message: escape_markdown_v2(video_info['url'])
FallbackBody(url) == escape_markdown_v2(url)

\* ------------------------------------------------------------------------
\* What is wrong with a resolver's answer, in the order the fetcher meets it:
\* "none" when the answer carries the success marker and a non-empty str URL
\* ------------------------------------------------------------------------

UrlFailure(u) == IF ~Truthy(Get(u)) THEN "missing field" ELSE IF u.t # "str" THEN "field shape" ELSE "none"

TransportFailure(resp) == IF resp.net = "Timeout" THEN "timeout"
                          ELSE IF resp.net # "ok" THEN "network"
                          ELSE IF resp.status >= 400 THEN "status"
                          ELSE IF ~resp.decodable THEN "undecodable"
                          ELSE IF ~resp.isdict THEN "field shape"
                          ELSE "none"

RECURSIVE ItemsFailure1(_, _)
ItemsFailure1(items, i) == IF i > Len(items) THEN "missing field"
                           ELSE IF ~items[i].isdict THEN "field shape"
                           ELSE IF Get(items[i].type) = Str(KindVideo) /\ items[i].playUrl.t \notin {"absent", "none"} /\ items[i].playUrl # Str(<<>>) THEN UrlFailure(items[i].playUrl)
                           ELSE ItemsFailure1(items, i + 1)

ListFailure(resp, sentinel) == IF Get(resp.st) # Str(sentinel) THEN "missing marker"
                               ELSE IF resp.lt = "absent" THEN "missing field"
                               ELSE IF resp.lt = "int" THEN "field shape"
                               ELSE "none"

FailureMode1(resp) == IF TransportFailure(resp) # "none" THEN TransportFailure(resp)
                      ELSE IF ListFailure(resp, StatusSuccess) # "none" THEN ListFailure(resp, StatusSuccess)
                      ELSE ItemsFailure1(resp.items, 1)

FailureMode2(resp) == IF TransportFailure(resp) # "none" THEN TransportFailure(resp)
                      ELSE IF Get(resp.st) # Str(StatusSuccess) THEN "missing marker"
                      ELSE UrlFailure(resp.download_link)

FailureMode3(resp) == IF TransportFailure(resp) # "none" THEN TransportFailure(resp)
                      ELSE IF ListFailure(resp, StatusSuccess3) # "none" THEN ListFailure(resp, StatusSuccess3)
                      ELSE IF resp.items = <<>> THEN "missing field"
                      ELSE IF ~resp.items[1].isdict THEN "field shape"
                      ELSE IF UrlFailure(resp.items[1].link) # "none" THEN UrlFailure(resp.items[1].link)
                      ELSE IF resp.items[1].thumbs.tt = "list" THEN "field shape"
                      ELSE "none"

FailureMode(api, resp) == CASE api = "API 1" -> FailureMode1(resp) [] api = "API 2" -> FailureMode2(resp) [] OTHER -> FailureMode3(resp)

\* ------------------------------------------------------------------------
\* State
\* ------------------------------------------------------------------------

VARIABLES
  pc,            \* where the request being served is
  request,       \* the POST being served
  httpStatus,    \* status telegram_webhook answered with, 0 before it answers
  processed,     \* whether process_update was called for the request
  handlers,      \* number of handlers process_update ran for the request
  terabox_link,  \* handle_terabox_link: what extract_terabox_link returned
  video_info,    \* handle_terabox_link: the last fetcher result
  idx,           \* handle_terabox_link: position in api_fetchers
  exc,           \* handle_terabox_link: exception caught by `except Exception`
  crashed,       \* exception that left the handler, "none" if none did
  sent,          \* reply_text and reply_video calls made, in order
  invoked,       \* fetchers called, in order
  outcome,       \* per fetcher: what became of its result
  failure,       \* FailureMode of the answer the last fetcher called got
  accepted,      \* the result the loop over api_fetchers broke on, if any
  escIn,         \* argument of a lone escape_markdown_v2 call
  escOut,        \* its result
  escDone        \* whether the call returned

vars == <<pc, request, httpStatus, processed, handlers, terabox_link, video_info, idx, exc, crashed, sent, invoked, outcome, failure, accepted, escIn, escOut, escDone>>

escVars == <<escIn, escOut, escDone>>

Apis == {"API 1", "API 2", "API 3"}

\* state of the server between two requests
Idle == /\ pc = "idle"
        /\ request = NoReq
        /\ httpStatus = 0
        /\ processed = FALSE
        /\ handlers = 0
        /\ terabox_link = None
        /\ video_info = NoneInfo
        /\ idx = 1
        /\ exc = NoExc
        /\ crashed = "none"
        /\ sent = <<>>
        /\ invoked = <<>>
        /\ outcome = [a \in Apis |-> "not called"]
        /\ failure = "not called"
        /\ accepted = NoneInfo

Init == /\ Idle
        /\ escIn = <<>>
        /\ escOut = <<>>
        /\ escDone = FALSE

\* ------------------------------------------------------------------------
\* Operations
\* ------------------------------------------------------------------------

\* telegram_webhook up to `await application_instance.process_update(update)`
telegram_webhook == /\ pc = "idle"
                    /\ \E req \in Requests :
                         /\ request' = req
                         /\ IF WebhookStatus(req) # 0
                            THEN /\ httpStatus' = WebhookStatus(req)
                                 /\ pc' = "responded"
                                 /\ processed' = FALSE
                            ELSE /\ httpStatus' = 0
                                 /\ pc' = "process_update"
                                 /\ processed' = TRUE
                    /\ UNCHANGED <<handlers, terabox_link, video_info, idx, exc, crashed, sent, invoked, outcome, failure, accepted, escVars>>

\* a handler that makes one reply_text call and returns
StaticReply(kind) == /\ pc = "process_update"
                     /\ request.kind = kind
                     /\ handlers' = handlers + 1
                     /\ \E r \in ReplyTextOutcomes :
                          /\ sent' = Append(sent, Msg(kind, r = NoExc, "", <<>>, <<>>))
                          /\ crashed' = r.type
                     /\ pc' = "return"
                     /\ UNCHANGED <<request, httpStatus, processed, terabox_link, video_info, idx, exc, invoked, outcome, failure, accepted, escVars>>

start == StaticReply("start")

help_command == StaticReply("help")

\* process_update with an update none of the registered handlers matches
process_update_unhandled == /\ pc = "process_update"
                            /\ request.kind = "other"
                            /\ pc' = "return"
                            /\ UNCHANGED <<request, httpStatus, processed, handlers, terabox_link, video_info, idx, exc, crashed, sent, invoked, outcome, failure, accepted, escVars>>

\* handle_terabox_link up to the loop over api_fetchers
handle_terabox_link == /\ pc = "process_update"
                       /\ request.kind = "text"
                       /\ handlers' = handlers + 1
                       /\ terabox_link' = extract_terabox_link(request.text)
                       /\ \E r \in ReplyTextOutcomes :
                            IF LinkMissing(terabox_link')
                            THEN /\ sent' = Append(sent, Msg("guidance", r = NoExc, "", <<>>, <<>>))
                                 /\ crashed' = r.type
                                 /\ pc' = "return"
                            ELSE /\ sent' = Append(sent, Msg("processing", r = NoExc, "", terabox_link'.s, <<>>))
                                 /\ crashed' = r.type
                                 /\ pc' = IF r = NoExc THEN "fetch" ELSE "return"
                       /\ UNCHANGED <<request, httpStatus, processed, video_info, idx, exc, invoked, outcome, failure, accepted, escVars>>

\* one round of `for fetch_func, api_name in api_fetchers`
handle_terabox_link_fetch == /\ pc = "fetch"
                             /\ \E resp \in ResponsesOf(api_fetchers[idx]) :
                                  LET api == api_fetchers[idx]
                                      r == Fetch(api, resp)
                                      check == AcceptCheck(r.value)
                                  IN /\ invoked' = Append(invoked, api)
                                     /\ failure' = FailureMode(api, resp)
                                     /\ IF r.raised # "none"
                                        THEN /\ crashed' = r.raised
                                             /\ pc' = "return"
                                             /\ outcome' = [outcome EXCEPT ![api] = "raised"]
                                             /\ UNCHANGED <<video_info, idx, accepted>>
                                        ELSE /\ video_info' = r.value
                                             /\ IF check \notin {"accept", "reject"}
                                                THEN /\ crashed' = check
                                                     /\ pc' = "return"
                                                     /\ outcome' = [outcome EXCEPT ![api] = "handler raised"]
                                                     /\ UNCHANGED <<idx, accepted>>
                                                ELSE /\ crashed' = "none"
                                                     /\ outcome' = [outcome EXCEPT ![api] = IF check = "accept" THEN "accepted" ELSE IF r.value.isNone THEN "none" ELSE "rejected"]
                                                     /\ accepted' = IF check = "accept" THEN r.value ELSE accepted
                                                     /\ IF LoopEnds(check, idx)
                                                        THEN pc' = "reply" /\ idx' = idx
                                                        ELSE pc' = "fetch" /\ idx' = idx + 1
                             /\ UNCHANGED <<request, httpStatus, processed, handlers, terabox_link, exc, sent, escVars>>

\* `if video_info and video_info.get('url')` up to the reply_video call, and
\* the else branch
handle_terabox_link_reply == /\ pc = "reply"
                             /\ IF ~HasUrl(video_info)
                                THEN \E r \in ReplyTextOutcomes :
                                       /\ sent' = Append(sent, Msg("not found", r = NoExc, "", <<>>, <<>>))
                                       /\ crashed' = r.type
                                       /\ pc' = "return"
                                       /\ exc' = exc
                                ELSE IF BuildVideo(video_info).exc # NoExc
                                THEN /\ exc' = BuildVideo(video_info).exc
                                     /\ pc' = "except"
                                     /\ UNCHANGED <<sent, crashed>>
                                ELSE \E r \in ReplyVideoOutcomes :
                                       /\ sent' = Append(sent, Msg("video", r = NoExc, "", video_info.url.s, BuildVideo(video_info).caption))
                                       /\ exc' = r
                                       /\ pc' = IF r = NoExc THEN "advisory" ELSE "except"
                                       /\ crashed' = crashed
                             /\ UNCHANGED <<request, httpStatus, processed, handlers, terabox_link, video_info, idx, invoked, outcome, failure, accepted, escVars>>

\* the reply_text after reply_video, still inside the try block
handle_terabox_link_advisory == /\ pc = "advisory"
                                /\ \E r \in ReplyTextOutcomes :
                                     /\ sent' = Append(sent, Msg("advisory", r = NoExc, "", <<>>, <<>>))
                                     /\ exc' = r
                                     /\ pc' = IF r = NoExc THEN "return" ELSE "except"
                                /\ UNCHANGED <<request, httpStatus, processed, handlers, terabox_link, video_info, idx, crashed, invoked, outcome, failure, accepted, escVars>>

\* `except Exception as e` up to its first reply_text
handle_terabox_link_except == /\ pc = "except"
                              /\ \E r \in ReplyTextOutcomes :
                                   /\ sent' = Append(sent, Msg("apology", r = NoExc, Classify(exc), <<>>, <<>>))
                                   /\ crashed' = r.type
                                   /\ pc' = IF r = NoExc THEN "fallback" ELSE "return"
                              /\ UNCHANGED <<request, httpStatus, processed, handlers, terabox_link, video_info, idx, exc, invoked, outcome, failure, accepted, escVars>>

\* `if video_info.get('url')` and its reply_text, the end of the except block
handle_terabox_link_fallback == /\ pc = "fallback"
                                /\ IF video_info.isNone
                                   THEN crashed' = "AttributeError" /\ sent' = sent
                                   ELSE IF ~Truthy(video_info.url)
                                   THEN crashed' = crashed /\ sent' = sent
                                   ELSE IF FallbackBody(video_info.url).exc # "none"
                                   THEN crashed' = FallbackBody(video_info.url).exc /\ sent' = sent
                                   ELSE \E r \in ReplyTextOutcomes :
                                          /\ sent' = Append(sent, Msg("fallback", r = NoExc, "", FallbackBody(video_info.url).s, <<>>))
                                          /\ crashed' = r.type
                                /\ pc' = "return"
                                /\ UNCHANGED <<request, httpStatus, processed, handlers, terabox_link, video_info, idx, exc, invoked, outcome, failure, accepted, escVars>>

\* process_update returns (it passes a handler's exception to the error
\* handlers, it does not re-raise it); `return jsonify({"status": "ok"})`
telegram_webhook_return == /\ pc = "return"
                           /\ httpStatus' = 200
                           /\ pc' = "responded"
                           /\ UNCHANGED <<request, processed, handlers, terabox_link, video_info, idx, exc, crashed, sent, invoked, outcome, failure, accepted, escVars>>

\* the request is over; the handler keeps nothing between requests
next_request == /\ pc = "responded"
                /\ pc' = "idle"
                /\ request' = NoReq
                /\ httpStatus' = 0
                /\ processed' = FALSE
                /\ handlers' = 0
                /\ terabox_link' = None
                /\ video_info' = NoneInfo
                /\ idx' = 1
                /\ exc' = NoExc
                /\ crashed' = "none"
                /\ sent' = <<>>
                /\ invoked' = <<>>
                /\ outcome' = [a \in Apis |-> "not called"]
                /\ failure' = "not called"
                /\ accepted' = NoneInfo
                /\ UNCHANGED escVars

Next == \/ telegram_webhook
        \/ start
        \/ help_command
        \/ process_update_unhandled
        \/ handle_terabox_link
        \/ handle_terabox_link_fetch
        \/ handle_terabox_link_reply
        \/ handle_terabox_link_advisory
        \/ handle_terabox_link_except
        \/ handle_terabox_link_fallback
        \/ telegram_webhook_return
        \/ next_request

Spec == Init /\ [][Next]_vars

\* ------------------------------------------------------------------------
\* escape_markdown_v2 on its own
\* ------------------------------------------------------------------------

\* characters the inputs are made of: the reserved ones and two plain ones
EscAlphabet == Range(special_chars) \cup {"a", "B"}

EscInputs == SeqsUpTo(EscAlphabet, MaxLen) \cup {TitleDots, UrlHttps, UrlHttp, UrlDownHttp, SizeText, <<"\\", "\\", "_", "a", "\\", ".">>}

InitEscape == /\ Idle
              /\ escIn \in EscInputs
              /\ escOut = <<>>
              /\ escDone = FALSE

escape_call == /\ ~escDone
               /\ escOut' = escape_markdown_v2(Str(escIn)).s
               /\ escDone' = TRUE
               /\ UNCHANGED <<pc, request, httpStatus, processed, handlers, terabox_link, video_info, idx, exc, crashed, sent, invoked, outcome, failure, accepted, escIn>>

NextEscape == escape_call

SpecEscape == InitEscape /\ [][NextEscape]_vars

\* ------------------------------------------------------------------------
\* Properties
\* ------------------------------------------------------------------------

\* the kinds of the messages sent, in order
Kinds == [i \in DOMAIN sent |-> sent[i].kind]

\* handle_terabox_link has returned or raised
Finished == pc \in {"return", "responded"} /\ request.kind = "text" /\ handlers = 1

SomeAccepted == \E a \in Apis : outcome[a] = "accepted"

\* the cascade order of the specification: C, A, B
CascadeOrder == <<"API 3", "API 1", "API 2">>

\* the reserved characters of MarkdownV2
Reserved == {"\\", "_", "*", "[", "]", "(", ")", "~", BACKTICK, ">", "#", "+", "-", "=", "|", "{", "}", ".", "!"}

\* text with one backslash put in front of every reserved character
RECURSIVE CharEscape(_)
CharEscape(text) == IF text = <<>> THEN <<>> ELSE (IF Head(text) \in Reserved THEN <<"\\", Head(text)>> ELSE <<Head(text)>>) \o CharEscape(Tail(text))

HttpUrl(u) == u.t = "str" /\ (StartsWith(u.s, <<"h","t","t","p",":","/","/">>) \/ StartsWith(u.s, <<"h","t","t","p","s",":","/","/">>))

\* C1: the fetchers are called in the order API 3, API 1, API 2, each at most
\* once; none is called after one whose result was accepted; and the result
\* the reply is built from is the accepted one.
C1_CascadeOrder == /\ \E n \in 0..Len(CascadeOrder) : invoked = SubSeq(CascadeOrder, 1, n)
                   /\ \A i \in DOMAIN invoked : outcome[invoked[i]] = "accepted" => i = Len(invoked)
                   /\ SomeAccepted => /\ video_info = accepted
                                      /\ \A i \in DOMAIN sent : sent[i].kind = "video" => sent[i].body = accepted.url.s
                                      /\ \A i \in DOMAIN sent : sent[i].kind = "fallback" => sent[i].body = CharEscape(accepted.url.s)

\* C1 witness: API 3 failed, API 1 was accepted, API 2 was never called and
\* the video sent carries API 1's URL
C1_Witness == /\ pc = "responded"
              /\ outcome["API 3"] = "none"
              /\ outcome["API 1"] = "accepted"
              /\ outcome["API 2"] = "not called"
              /\ invoked = <<"API 3", "API 1">>
              /\ \E i \in DOMAIN sent : sent[i].kind = "video" /\ sent[i].ok /\ sent[i].body = accepted.url.s

\* C2: a result whose URL carries the outage marker counts as no result for
\* every fetcher, the last included: when no fetcher's result was accepted the
\* user gets what all three returning nothing gives: the processing note and
\* the could-not-find text.
C2_MarkerIsNoResult == (Finished /\ Len(invoked) = 3 /\ \A a \in Apis : outcome[a] \in {"none", "rejected"}) => Kinds = <<"processing", "not found">>

\* C3: when all three fetchers return nothing the handler sends the
\* could-not-find text and no video, apology or fallback link.
C3_TotalFailure == (Finished /\ \A a \in Apis : outcome[a] = "none") => /\ Kinds = <<"processing", "not found">>
                                                                       /\ (sent[2].ok <=> crashed = "none")

\* C3 witness: all three returned nothing and the could-not-find text went out
C3_Witness == /\ pc = "responded"
              /\ \A a \in Apis : outcome[a] = "none"
              /\ Len(sent) = 2
              /\ sent[2].kind = "not found"
              /\ sent[2].ok

\* C4: when reply_video raises and every reply_text call succeeds, the
\* handler ends having sent an apology that names one of the three reasons
\* and, after it, a message carrying the MarkdownV2-escaped URL.
C4_DeliveryFallback == \A i \in DOMAIN sent : (Finished /\ sent[i].kind = "video" /\ ~sent[i].ok /\ \A j \in DOMAIN sent : j # i => sent[j].ok)
                          => \E j, k \in DOMAIN sent : /\ i < j
                                                       /\ j < k
                                                       /\ sent[j].kind = "apology"
                                                       /\ sent[j].cls \in {"content unreachable", "formatting error", "unknown error"}
                                                       /\ sent[k].kind = "fallback"
                                                       /\ sent[k].body = CharEscape(sent[i].body)

\* C4 witness: reply_video raised, the apology and the escaped link followed
C4_Witness == /\ pc = "responded"
              /\ Kinds = <<"processing", "video", "apology", "fallback">>
              /\ ~sent[2].ok
              /\ sent[3].cls = "content unreachable"
              /\ sent[4].ok
              /\ sent[2].body = UrlHttps
              /\ sent[4].body # sent[2].body

\* C5: no fetcher raises; for every failure of the outbound call (network
\* error, timeout, non-2xx status, undecodable body, missing success marker
\* or field, field of an unexpected shape) it returns nothing, and the loop
\* goes on to the next fetcher.
C5_FetchersAbsorbFailures == /\ \A a \in Apis : outcome[a] \notin {"raised", "handler raised"}
                             /\ (invoked # <<>> /\ failure # "none") => outcome[invoked[Len(invoked)]] = "none"

\* C6: every accepted result with an http:// or https:// URL leads to a
\* reply_video call with that URL, whatever its size, title and thumbnail are.
C6_AcceptedIsSent == (SomeAccepted /\ HttpUrl(accepted.url) /\ pc # "reply") => \E i \in DOMAIN sent : sent[i].kind = "video" /\ sent[i].body = accepted.url.s

\* C7: escape_markdown_v2 returns its argument with one backslash in front of
\* every reserved character and nothing else changed.
C7_EscapeIsCharMap == escDone => escOut = CharEscape(escIn)

\* C7 witness: "A.B(C)" became "A\.B\(C\)"
C7_Witness == /\ escDone
              /\ escIn = <<"A", ".", "B", "(", "C", ")">>
              /\ escOut = <<"A", "\\", ".", "B", "\\", "(", "C", "\\", ")">>

\* the status the webhook is to answer a request with
ExpectedStatus(req) == IF ~req.is_json \/ req.body \in {"unparsable", "falsy"} THEN 400 ELSE IF req.body = "badupdate" THEN 500 ELSE 200

\* C8: /webhook answers 400 to a non-JSON or empty body and 500 to an update
\* that does not deserialize, both without dispatching; it answers 200 only
\* after process_update; at most one handler runs per request, and only on
\* the way to 200.
C8_WebhookStatus == /\ handlers <= 1
                    /\ httpStatus # 0 => httpStatus = ExpectedStatus(request)
                    /\ httpStatus = 200 => processed
                    /\ httpStatus \in {400, 500} => ~processed
                    /\ request # NoReq /\ ExpectedStatus(request) # 200 => handlers = 0 /\ sent = <<>> /\ ~processed

\* C8 witness: an empty JSON body was answered with 400 and nothing ran
C8_Witness == /\ pc = "responded"
              /\ request.is_json
              /\ request.body = "falsy"
              /\ httpStatus = 400
              /\ handlers = 0

\* C9: when the text holds no share link the handler sends the guidance
\* message and nothing else, and calls no fetcher.
C9_NoLinkGuidanceOnly == (Finished /\ terabox_link = None) => Kinds = <<"guidance">> /\ invoked = <<>>

\* C9 witness: a text with a link to another host got the guidance message
C9_Witness == /\ pc = "responded"
              /\ request.text = TextOtherHost
              /\ Kinds = <<"guidance">>
              /\ sent[1].ok
              /\ httpStatus = 200

\* C10: reply_video is never called with a URL that does not start with
\* http:// or https://; an accepted result with such a URL ends the attempt.
C10_SchemeValidated == /\ \A i \in DOMAIN sent : sent[i].kind = "video" => HttpUrl(Str(sent[i].body))
                       /\ (SomeAccepted /\ ~HttpUrl(accepted.url)) => "video" \notin Range(Kinds)

\* C10 witness: an ftp:// URL was accepted and the handler ended without a
\* reply_video call
C10_Witness == /\ pc = "responded"
               /\ SomeAccepted
               /\ accepted.url = Str(UrlFtp)
               /\ "apology" \in Range(Kinds)
               /\ "video" \notin Range(Kinds)

\* C11: the apology and the fallback link are sent only when the media send
\* did not succeed: once reply_video has returned, neither is ever sent, also
\* when the advisory reply_text after it raises.
C11_NoApologyAfterVideo == (\E i \in DOMAIN sent : sent[i].kind = "video" /\ sent[i].ok) => ("apology" \notin Range(Kinds) /\ "fallback" \notin Range(Kinds))

====
